---- MODULE Spec2Model ----
(***************************************************************************)
(* Verification model of the DolphinBrowse control plane:                  *)
(*   - the trial ledger      (server/services/trial.ts, lines 1-55)        *)
(*   - the realtime hub      (server/services/trial.ts, lines 200-230)     *)
(*   - the realtime client   (client/src/hooks/use-websocket.ts)           *)
(***************************************************************************)
EXTENDS Integers, Sequences, FiniteSets, TLC

VARIABLES
    usage,      \* trial.ts:13   usage: Map<userKey, Usage>
    call,       \* the last ledger call: operation, user, returned value
    hist,       \* history of the ledger calls since the start (for the claims)
    calls,      \* number of beginSession/endSession calls made
    sessionConnections, \* trial.ts:202  Map<sessionId, Set<WebSocket>>
    readyState,         \* ws.readyState of every server-side connection
    inbox,              \* the frames ws.send has written to every connection
    gone,               \* the connections unsubscribed since their last subscribe
    hubTick,            \* alternates with every hub operation
    hook,       \* use-websocket.ts: props, state, refs, transports and timers
    obs,        \* what the claims observe of the client's run
    store,      \* part_003 38-247: the MemStorage maps, the clock, the gateway keys
    resp        \* the last HTTP request handled: its answer and what it caused

ledgerVars == <<usage, call, hist, calls>>
hubVars == <<sessionConnections, readyState, inbox, gone, hubTick>>
clientVars == <<hook, obs>>
apiVars == <<store, resp>>
vars == <<usage, call, hist, calls,
          sessionConnections, readyState, inbox, gone, hubTick, hook, obs,
          store, resp>>

\* undefined, for a record of the usage map, for a Date, for a day key and for
\* the value of a call that returns nothing
NoUsage == [undefined |-> "usage"]
NoDate == [undefined |-> "date"]
NoDay == 0 - 1
Void == 0 - 1

Max(a, b) == IF a >= b THEN a ELSE b
Min(a, b) == IF a <= b THEN a ELSE b

(***************************************************************************)
(* Time.  A Date is an instant in milliseconds.  The ledger compares       *)
(* instants more than 30 days apart (2 592 000 000 ms), so an instant is   *)
(* kept as the pair (d, ms): d whole days of DAY_MS and ms milliseconds    *)
(* into that day, getTime() = d * DAY_MS + ms.  Day 0 is a day after       *)
(* 1970-01-01, so getTime() is never 0.                                    *)
(***************************************************************************)
DAY_MS == 86400000
MAX_SECONDS == 15 * 60
MAX_DAYS == 5
\* cleanOldDays: the window "30 * DAY_MS"
WINDOW_DAYS == 30

Date(d, ms) == [d |-> d, ms |-> ms]

\* a.getTime() < b.getTime()
Before(a, b) == a.d < b.d \/ (a.d = b.d /\ a.ms < b.ms)

\* the instant t.getTime() + k
PlusMs(t, k) ==
    LET total == t.ms + k
    IN  [d |-> t.d + (total \div DAY_MS), ms |-> total % DAY_MS]

\* Math.floor((now.getTime() - start.getTime()) / 1000); 1000 divides DAY_MS,
\* so the whole days contribute DAY_MS / 1000 seconds each, exactly.
ElapsedTrunc(now, start) ==
    LET ms == (now.d - start.d) * DAY_MS + (now.ms - start.ms)
    IN  IF ms >= 0 THEN ms \div 1000 ELSE 0 - ((0 - ms) \div 1000)
ElapsedCeil(now, start) ==
    (now.d - start.d) * (DAY_MS \div 1000) + ((now.ms - start.ms + 999) \div 1000)
Elapsed(now, start) ==
    (now.d - start.d) * (DAY_MS \div 1000) + ((now.ms - start.ms) \div 1000)

(***************************************************************************)
(* getIstDate / getIstDateKey.  toLocaleString renders the instant as the  *)
(* wall clock of Asia/Kolkata (UTC+05:30, no daylight saving) to the       *)
(* second; new Date(string) reads that wall clock in the time zone of the  *)
(* server process; toISOString().slice(0, 10) is the UTC date of the       *)
(* result.  A key "YYYY-MM-DD" is kept as its day number.                  *)
(***************************************************************************)
IST_OFFSET_MS == (5 * 60 + 30) * 60 * 1000
\* the server process runs in UTC (offset of its local zone, in ms)
LOCAL_OFFSET_MS == 0 * 60 * 1000

toLocaleStringKolkata(date) ==
    LET wall == PlusMs(date, IST_OFFSET_MS)
    IN  [wall EXCEPT !.ms = wall.ms - (wall.ms % 1000)]

getIstDate(date) == PlusMs(toLocaleStringKolkata(date), 0 - LOCAL_OFFSET_MS)

getIstDateKeyUtc(date) == date.d
getIstDateKey(date) == getIstDate(date).d

(***************************************************************************)
(* Trial ledger                                                            *)
(***************************************************************************)
EmptyDays == [k \in {} |-> NoDate]

NewUsage(dayKey) ==
    [days |-> EmptyDays, secondsToday |-> 0, lastDay |-> dayKey,
     activeStart |-> NoDate]

\* u.days.set(dayKey, ts)
DaysSet(days, dayKey, ts) ==
    [k \in (DOMAIN days) \cup {dayKey} |-> IF k = dayKey THEN ts ELSE days[k]]

cleanOldDaysInclusive(u, now) ==
    LET cutoff == Date(now.d - WINDOW_DAYS, now.ms)
    IN  [u EXCEPT !.days =
            [k \in {x \in DOMAIN u.days : Before(cutoff, u.days[x])} |-> u.days[k]]]
cleanOldDaysNever(u, now) == u
cleanOldDays(u, now) ==
    LET cutoff == Date(now.d - WINDOW_DAYS, now.ms)
    IN  [u EXCEPT !.days =
            [k \in {x \in DOMAIN u.days : ~Before(u.days[x], cutoff)} |-> u.days[k]]]

\* u.days.size > MAX_DAYS
DayCapAtFive(u) == Cardinality(DOMAIN u.days) >= MAX_DAYS
DayCapAboveSix(u) == Cardinality(DOMAIN u.days) > MAX_DAYS + 1
DayCapExceeded(u) == Cardinality(DOMAIN u.days) > MAX_DAYS

\* Math.max(0, MAX_SECONDS - u.secondsToday)
RemainingUnclamped(u) == MAX_SECONDS - u.secondsToday
Remaining(u) == Max(0, MAX_SECONDS - u.secondsToday)

\* !u.activeStart: undefined, or the number 0 (never a getTime() here)
HasActiveStart(u) == u.activeStart # NoDate

\* beginSession: the ledger after the call and the value returned
beginSessionStartsBeforeCap(us, userKey, now) ==
    LET dayKey == getIstDateKey(now)
        u0 == IF us[userKey] = NoUsage THEN NewUsage(dayKey) ELSE us[userKey]
        u1 == cleanOldDays(u0, now)
        u2 == IF u1.lastDay # dayKey
              THEN [u1 EXCEPT !.secondsToday = 0, !.lastDay = dayKey]
              ELSE u1
        u3 == [u2 EXCEPT !.days = DaysSet(u2.days, dayKey, now),
                         !.activeStart = now]
    IN  [usage |-> [us EXCEPT ![userKey] = u3],
         ret |-> IF DayCapExceeded(u3) THEN 0 ELSE Remaining(u3)]
beginSessionResetsWhenAccepted(us, userKey, now) ==
    LET dayKey == getIstDateKey(now)
        u0 == IF us[userKey] = NoUsage THEN NewUsage(dayKey) ELSE us[userKey]
        u1 == cleanOldDays(u0, now)
        u3 == [u1 EXCEPT !.days = DaysSet(u1.days, dayKey, now)]
        u4 == IF u3.lastDay # dayKey
              THEN [u3 EXCEPT !.secondsToday = 0, !.lastDay = dayKey]
              ELSE u3
    IN  IF DayCapExceeded(u3)
        THEN [usage |-> [us EXCEPT ![userKey] = u3], ret |-> 0]
        ELSE [usage |-> [us EXCEPT ![userKey] = [u4 EXCEPT !.activeStart = now]],
              ret |-> Remaining(u4)]
beginSessionKeepsFirstStart(us, userKey, now) ==
    LET dayKey == getIstDateKey(now)
        u0 == IF us[userKey] = NoUsage THEN NewUsage(dayKey) ELSE us[userKey]
        u1 == cleanOldDays(u0, now)
        u2 == IF u1.lastDay # dayKey
              THEN [u1 EXCEPT !.secondsToday = 0, !.lastDay = dayKey]
              ELSE u1
        u3 == [u2 EXCEPT !.days = DaysSet(u2.days, dayKey, now)]
    IN  IF DayCapExceeded(u3)
        THEN [usage |-> [us EXCEPT ![userKey] = u3], ret |-> 0]
        ELSE [usage |-> [us EXCEPT ![userKey] =
                  [u3 EXCEPT !.activeStart =
                       IF HasActiveStart(u3) THEN u3.activeStart ELSE now]],
              ret |-> Remaining(u3)]
beginSession(us, userKey, now) ==
    LET dayKey == getIstDateKey(now)
        u0 == IF us[userKey] = NoUsage THEN NewUsage(dayKey) ELSE us[userKey]
        u1 == cleanOldDays(u0, now)
        u2 == IF u1.lastDay # dayKey
              THEN [u1 EXCEPT !.secondsToday = 0, !.lastDay = dayKey]
              ELSE u1
        u3 == [u2 EXCEPT !.days = DaysSet(u2.days, dayKey, now)]
    IN  IF DayCapExceeded(u3)
        THEN [usage |-> [us EXCEPT ![userKey] = u3], ret |-> 0]
        ELSE [usage |-> [us EXCEPT ![userKey] = [u3 EXCEPT !.activeStart = now]],
              ret |-> Remaining(u3)]

endSessionCapsDelta(us, userKey, now) ==
    LET u == us[userKey]
    IN  IF u = NoUsage \/ ~HasActiveStart(u)
        THEN us
        ELSE [us EXCEPT ![userKey] =
                [u EXCEPT !.secondsToday =
                              u.secondsToday + Min(DAY_MS \div 1000, Elapsed(now, u.activeStart)),
                          !.activeStart = NoDate]]
endSessionKeepsStart(us, userKey, now) ==
    LET u == us[userKey]
    IN  IF u = NoUsage \/ ~HasActiveStart(u)
        THEN us
        ELSE [us EXCEPT ![userKey] =
                [u EXCEPT !.secondsToday = u.secondsToday + Elapsed(now, u.activeStart)]]
endSession(us, userKey, now) ==
    LET u == us[userKey]
    IN  IF u = NoUsage \/ ~HasActiveStart(u)
        THEN us
        ELSE [us EXCEPT ![userKey] =
                [u EXCEPT !.secondsToday = u.secondsToday + Elapsed(now, u.activeStart),
                          !.activeStart = NoDate]]

getTrialBudgetSecondsLeftAnyDay(us, userKey, now) ==
    LET u == us[userKey]
    IN  IF u = NoUsage THEN MAX_SECONDS ELSE Remaining(u)
getTrialBudgetSecondsLeft(us, userKey, now) ==
    LET u == us[userKey]
    IN  IF u = NoUsage THEN MAX_SECONDS
        ELSE IF u.lastDay # getIstDateKey(now) THEN MAX_SECONDS
        ELSE Remaining(u)

(***************************************************************************)
(* The calls.  Every call records its operation, arguments and returned    *)
(* value in `call`; `hist` follows the calls the way the claims read them. *)
(***************************************************************************)
\* the civil date of Asia/Kolkata at an instant
IstDay(t) == PlusMs(t, IST_OFFSET_MS).d

\* floor((end - begin) / 1000) for two instants less than 24 days apart
WholeSeconds(begin, end) ==
    ((end.d - begin.d) * DAY_MS + (end.ms - begin.ms)) \div 1000

HistInit ==
    [ok |-> TRUE, day |-> NoDay, last |-> NoDate, openAt |-> NoDate, sum |-> 0,
     mono |-> TRUE, latest |-> NoDate]
HistVoid ==
    [ok |-> FALSE, day |-> NoDay, last |-> NoDate, openAt |-> NoDate, sum |-> 0,
     mono |-> TRUE, latest |-> NoDate]

\* the call at `now` keeps the calls non-decreasing in time and on one IST day
HistInOrder(h, now) ==
    /\ h.ok
    /\ h.last = NoDate \/ ~Before(now, h.last)
    /\ h.day = NoDay \/ h.day = IstDay(now)

\* mono: every beginSession and endSession so far came no earlier than the one
\* before it; latest: the instant of the last one, while mono holds
HistSeen(h, now, r) ==
    LET mono == h.mono /\ (h.latest = NoDate \/ ~Before(now, h.latest))
    IN  [r EXCEPT !.mono = mono, !.latest = IF mono THEN now ELSE NoDate]

HistBegin(h, now) ==
    HistSeen(h, now,
        IF HistInOrder(h, now) /\ h.openAt = NoDate
        THEN [h EXCEPT !.day = IstDay(now), !.last = now, !.openAt = now]
        ELSE HistVoid)

HistEnd(h, now) ==
    HistSeen(h, now,
        IF ~HistInOrder(h, now) THEN HistVoid
        ELSE IF h.openAt = NoDate THEN [h EXCEPT !.day = IstDay(now), !.last = now]
        ELSE [h EXCEPT !.day = IstDay(now), !.last = now, !.openAt = NoDate,
                       !.sum = h.sum + WholeSeconds(h.openAt, now)])

Abs(x) == IF x < 0 THEN 0 - x ELSE x

Users == {"u1"}

\* the ledger stops charging a user whose counter has left this range
MaxCharged == 1200

\* the record of a call; tick alternates, so that no call is a stuttering step
Called(op, userKey, ret) ==
    [op |-> op, user |-> userKey, ret |-> ret, after |-> call.op,
     tick |-> 1 - call.tick]

BeginSession(userKey, now) ==
    LET r == beginSession(usage, userKey, now)
    IN  /\ usage' = r.usage
        /\ call' = Called("beginSession", userKey, r.ret)
        /\ hist' = HistBegin(hist, now)

EndSession(userKey, now) ==
    /\ usage[userKey] # NoUsage => Abs(usage[userKey].secondsToday) <= MaxCharged
    /\ usage' = endSession(usage, userKey, now)
    /\ call' = Called("endSession", userKey, Void)
    /\ hist' = HistEnd(hist, now)

GetTrialBudgetSecondsLeft(userKey, now) ==
    /\ usage' = usage
    /\ call' = Called("getTrialBudgetSecondsLeft", userKey,
                      getTrialBudgetSecondsLeft(usage, userKey, now))
    /\ hist' = hist

InitLedger ==
    /\ usage = [u \in Users |-> NoUsage]
    /\ call = [op |-> "none", user |-> "none", ret |-> Void, after |-> "none",
               tick |-> 0]
    /\ hist = HistInit
    /\ calls = 0

(***************************************************************************)
(* The instants the calls are made at.  T0 is 10:00 UTC (15:30 IST); the   *)
(* evening instant 19:00 UTC is 00:30 IST of the next civil day.           *)
(***************************************************************************)
T0 == 10 * 3600 * 1000
Evening == 19 * 3600 * 1000

\* one civil day in detail: 00:30 IST (the UTC day before), four instants in
\* the afternoon up to 900 s apart, and 00:30 IST of the next civil day
SessionOffsets == {0, 300000, 300999, 900000}
DayTimes ==
    {Date(0, Evening)}
    \cup {Date(1, T0 + o) : o \in SessionOffsets}
    \cup {Date(1, Evening)}

\* many civil days: one instant on each of the days 1..MaxDay, and two
\* instants 30 days after day 1 (exactly, and 300 s more)
MaxDay == 6
WindowTimes ==
    {Date(d, T0) : d \in 1..MaxDay}
    \cup {Date(WINDOW_DAYS + 1, T0), Date(WINDOW_DAYS + 1, T0 + 300000)}

\* the calls of one run of the one-day specification
MaxCalls == 6

DayBegin ==
    \E userKey \in Users, now \in DayTimes :
        /\ calls < MaxCalls /\ BeginSession(userKey, now) /\ calls' = calls + 1
        /\ UNCHANGED <<hubVars, clientVars, apiVars>>
DayEnd ==
    \E userKey \in Users, now \in DayTimes :
        /\ calls < MaxCalls /\ EndSession(userKey, now) /\ calls' = calls + 1
        /\ UNCHANGED <<hubVars, clientVars, apiVars>>
DayBudget ==
    \E userKey \in Users, now \in DayTimes :
        /\ calls < MaxCalls /\ GetTrialBudgetSecondsLeft(userKey, now)
        /\ calls' = calls /\ UNCHANGED <<hubVars, clientVars, apiVars>>

WindowBegin ==
    \E userKey \in Users, now \in WindowTimes :
        BeginSession(userKey, now) /\ calls' = calls /\ UNCHANGED <<hubVars, clientVars, apiVars>>
WindowEnd ==
    \E userKey \in Users, now \in WindowTimes :
        EndSession(userKey, now) /\ calls' = calls /\ UNCHANGED <<hubVars, clientVars, apiVars>>

NextLedger == DayBegin \/ DayEnd \/ DayBudget
NextWindow == WindowBegin \/ WindowEnd

(***************************************************************************)
(* Claims about the trial ledger                                           *)
(***************************************************************************)
\* ts lies within the 30 x 24h before now
InWindowBefore(ts, now) ==
    /\ ~Before(ts, Date(now.d - WINDOW_DAYS, now.ms))
    /\ ~Before(now, ts)

\* C1: for one user and one IST day, after beginSession/endSession calls that
\* are properly paired, non-decreasing in time and charge at most 900 s in
\* total, getTrialBudgetSecondsLeft returns 900 minus the sum over the pairs
\* of floor((end - begin) / 1000); beginSession returns the same budget, 900
\* for a new user.
C1_BudgetIsCapMinusCharged ==
    [][\A u \in Users, now \in DayTimes :
        /\ ( /\ GetTrialBudgetSecondsLeft(u, now)
             /\ HistInOrder(hist, now) /\ hist.openAt = NoDate
             /\ hist.sum <= 900 )
           => call'.ret = 900 - hist.sum
        /\ ( /\ BeginSession(u, now)
             /\ HistInOrder(hist, now) /\ hist.openAt = NoDate
             /\ hist.sum <= 900 )
           => call'.ret = 900 - hist.sum
        /\ (BeginSession(u, now) /\ usage[u] = NoUsage) => call'.ret = 900
      ]_vars

\* a user began, ended 300 s later and was then told 600
C1_Witness ==
    /\ call.op = "getTrialBudgetSecondsLeft" /\ call.ret = 600
    /\ hist.ok /\ hist.openAt = NoDate /\ hist.sum = 300
    /\ usage["u1"] # NoUsage /\ usage["u1"].secondsToday = 300

\* C2: when the ledger records 5 distinct day keys, each last touched within
\* the 30 x 24h before now, beginSession at a now on a sixth distinct IST day
\* returns 0.
C2_SixthDayRejected ==
    [][\A u \in Users, now \in WindowTimes :
        ( /\ usage[u] # NoUsage
          /\ Cardinality(DOMAIN usage[u].days) = 5
          /\ \A k \in DOMAIN usage[u].days : InWindowBefore(usage[u].days[k], now)
          /\ IstDay(now) \notin DOMAIN usage[u].days
          /\ BeginSession(u, now) )
        => call'.ret = 0
      ]_vars

\* a sixth day was recorded and refused, with nothing charged on that day
C2_Witness ==
    /\ call.op = "beginSession" /\ call.ret = 0
    /\ usage["u1"] # NoUsage
    /\ Cardinality(DOMAIN usage["u1"].days) = 6
    /\ usage["u1"].secondsToday = 0

\* C3: a beginSession that brings the number of recorded day keys to exactly 5
\* is accepted: it sets activeStart to now and returns
\* max(0, 900 - secondsToday), which is 900 on a day not recorded before.
C3_FifthDayAccepted ==
    [][\A u \in Users, now \in WindowTimes :
        ( /\ call'.op = "beginSession"
          /\ Cardinality(DOMAIN usage'[u].days) = 5
          /\ BeginSession(u, now) )
        => /\ usage'[u].activeStart = now
           /\ call'.ret = Max(0, 900 - usage'[u].secondsToday)
           /\ (usage[u] = NoUsage \/ IstDay(now) \notin DOMAIN usage[u].days)
                 => call'.ret = 900
      ]_vars

\* the fifth recorded day was begun with the full budget
C3_Witness ==
    /\ call.op = "beginSession" /\ call.ret = 900
    /\ usage["u1"] # NoUsage
    /\ Cardinality(DOMAIN usage["u1"].days) = 5
    /\ usage["u1"].activeStart # NoDate
    /\ usage["u1"].days[usage["u1"].lastDay] = usage["u1"].activeStart

\* C4: an endSession that directly follows an endSession of the same user
\* leaves the user's whole record unchanged, whatever its timestamp.
C4_EndSessionIdempotent ==
    [][\A u \in Users, now \in DayTimes :
        (call.op = "endSession" /\ call.user = u /\ EndSession(u, now))
        => usage'[u] = usage[u]
      ]_vars

\* two endSession calls in a row on a record that has been charged
C4_Witness ==
    /\ call.op = "endSession" /\ call.after = "endSession"
    /\ usage["u1"] # NoUsage
    /\ usage["u1"].secondsToday > 0 /\ usage["u1"].activeStart = NoDate

\* the day keys and the open session of a user, none before the first call
DaysOf(us, u) == IF us[u] = NoUsage THEN {} ELSE DOMAIN us[u].days
StartOf(us, u) == IF us[u] = NoUsage THEN NoDate ELSE us[u].activeStart

\* (end - begin) in whole seconds: rounded down, and rounded toward zero
SecondsDown(begin, end) ==
    (end.d - begin.d) * 86400 + ((end.ms - begin.ms) \div 1000)
SecondsTowardZero(begin, end) ==
    LET ms == (end.d - begin.d) * DAY_MS + (end.ms - begin.ms)
    IN  IF ms >= 0 THEN ms \div 1000 ELSE 0 - ((0 - ms) \div 1000)

\* C15: a day key enters a user's day set only by a beginSession on that IST
\* civil date that opens a session (sets activeStart to its now).
C15_DayKeysAreSessionDays ==
    [][\A u \in Users, now \in WindowTimes :
        BeginSession(u, now)
        => \A k \in DaysOf(usage', u) \ DaysOf(usage, u) :
               k = IstDay(now) /\ usage'[u].activeStart = now
      ]_vars

\* C16: a beginSession that returns 0 because more than 5 day keys are
\* recorded leaves activeStart as it was, and its own day key is in the set.
C16_RejectionOpensNothing ==
    [][\A u \in Users, now \in WindowTimes :
        ( /\ call'.op = "beginSession"
          /\ Cardinality(DaysOf(usage', u)) > 5
          /\ BeginSession(u, now) )
        => /\ call'.ret = 0
           /\ usage'[u].activeStart = StartOf(usage, u)
           /\ IstDay(now) \in DaysOf(usage', u)
      ]_vars

\* a day was refused while the session of an earlier day was still open
C16_Witness ==
    /\ call.op = "beginSession" /\ call.ret = 0
    /\ usage["u1"] # NoUsage
    /\ Cardinality(DOMAIN usage["u1"].days) = 6
    /\ usage["u1"].activeStart # NoDate
    /\ IstDay(usage["u1"].activeStart) # usage["u1"].lastDay

C18_LateEndChargesWholeDelta ==
    [][\A u \in Users, now \in WindowTimes :
        ( /\ StartOf(usage, u) # NoDate
          /\ EndSession(u, now) )
        => /\ usage'[u].secondsToday =
                  usage[u].secondsToday + SecondsDown(usage[u].activeStart, now)
           /\ usage'[u].lastDay = usage[u].lastDay
           /\ usage'[u].days = usage[u].days
           /\ usage'[u].activeStart = NoDate
      ]_vars

\* a session was ended more than a day after it began, on a day that was
\* begun (and refused or accepted) in between
C18_Witness ==
    /\ call.op = "endSession"
    /\ usage["u1"] # NoUsage
    /\ usage["u1"].secondsToday > 86400
    /\ usage["u1"].activeStart = NoDate
    /\ Cardinality(DOMAIN usage["u1"].days) >= 2

\* C19, as claimed: endSession adds (now - activeStart) / 1000 rounded
\* toward zero, also when now is earlier than activeStart.
C19_ElapsedTowardZero ==
    [][\A u \in Users, now \in DayTimes :
        (StartOf(usage, u) # NoDate /\ EndSession(u, now))
        => usage'[u].secondsToday =
               usage[u].secondsToday + SecondsTowardZero(usage[u].activeStart, now)
      ]_vars

\* C19, amended: endSession adds (now - activeStart) / 1000 rounded down:
\* never up, and away from zero when now is earlier than activeStart.
C19_ElapsedRoundedDown ==
    [][\A u \in Users, now \in DayTimes :
        (StartOf(usage, u) # NoDate /\ EndSession(u, now))
        => /\ usage'[u].secondsToday =
                  usage[u].secondsToday + SecondsDown(usage[u].activeStart, now)
           /\ usage'[u].secondsToday
                  <= usage[u].secondsToday + SecondsTowardZero(usage[u].activeStart, now)
      ]_vars

\* a session was ended 999 ms before it began, and charged -1 s
C19_Witness ==
    /\ call.op = "endSession" /\ call.after = "beginSession"
    /\ usage["u1"] # NoUsage
    /\ usage["u1"].secondsToday = 0 - 1
    /\ usage["u1"].activeStart = NoDate

\* C20: a beginSession on an IST day other than lastDay leaves secondsToday 0
\* and lastDay the new key, whether it is accepted (and then returns the
\* full 900) or refused for the day cap (and then returns 0).
C20_NewDayResetsSeconds ==
    [][\A u \in Users, now \in WindowTimes :
        ( /\ usage[u] # NoUsage
          /\ usage[u].lastDay # IstDay(now)
          /\ BeginSession(u, now) )
        => /\ usage'[u].secondsToday = 0
           /\ usage'[u].lastDay = IstDay(now)
           /\ IF Cardinality(DaysOf(usage', u)) > 5
              THEN call'.ret = 0 ELSE call'.ret = 900
      ]_vars

\* after a session that ran into the next day was ended, a further day was
\* begun with the full budget
C20_Witness ==
    /\ call.op = "beginSession" /\ call.after = "endSession" /\ call.ret = 900
    /\ usage["u1"] # NoUsage
    /\ usage["u1"].secondsToday = 0
    /\ Cardinality(DOMAIN usage["u1"].days) = 3
    /\ usage["u1"].activeStart = Date(3, T0)

\* C21: when beginSession(user, now) returns, every entry left in the day set
\* was last touched at or after now - 30 x 24h: an older entry is removed
\* before the day count is compared with the cap, an entry exactly 30 x 24h
\* old is kept with its timestamp, and the entry of now's own day carries now.
C21_WindowPrunedBeforeCap ==
    [][\A u \in Users, now \in WindowTimes :
        (BeginSession(u, now) /\ usage[u] # NoUsage)
        => LET cutoff == Date(now.d - 30, now.ms)
               old == usage[u].days
               new == usage'[u].days
               kept == {k \in DOMAIN old : ~Before(old[k], cutoff)}
           IN  /\ \A k \in DOMAIN new : ~Before(new[k], cutoff)
               /\ DOMAIN new = kept \cup {IstDay(now)}
               /\ \A k \in kept \ {IstDay(now)} : new[k] = old[k]
               /\ new[IstDay(now)] = now
               /\ Cardinality(kept \cup {IstDay(now)}) > 5 => call'.ret = 0
               /\ Cardinality(kept \cup {IstDay(now)}) <= 5
                     => call'.ret = Max(0, 900 - usage'[u].secondsToday)
      ]_vars

\* the day begun exactly 30 x 24h before the last beginSession is still
\* recorded, with its own timestamp
C21_Witness ==
    /\ call.op = "beginSession"
    /\ usage["u1"] # NoUsage
    /\ 1 \in DOMAIN usage["u1"].days
    /\ usage["u1"].days[1] = Date(1, T0)
    /\ 31 \in DOMAIN usage["u1"].days
    /\ usage["u1"].days[31] = Date(31, T0)

\* C22: getTrialBudgetSecondsLeft changes nothing of the ledger; it returns
\* 900 when the user has no record or the stored lastDay is not now's IST
\* day, and max(0, 900 - secondsToday) otherwise.
C22_BudgetIsReadOnly ==
    [][\A u \in Users, now \in DayTimes :
        GetTrialBudgetSecondsLeft(u, now)
        => /\ usage' = usage
           /\ call'.ret = IF usage[u] = NoUsage THEN 900
                          ELSE IF usage[u].lastDay # IstDay(now) THEN 900
                          ELSE Max(0, 900 - usage[u].secondsToday)
      ]_vars

\* the full cap was reported for a user charged on another day, whose record
\* still carries the charge and the open session
C22_Witness ==
    /\ call.op = "getTrialBudgetSecondsLeft" /\ call.ret = 900
    /\ usage["u1"] # NoUsage
    /\ usage["u1"].secondsToday >= 300
    /\ usage["u1"].activeStart # NoDate

\* C29: as long as the beginSession and endSession calls of a user come with
\* non-decreasing timestamps, secondsToday is not negative and beginSession
\* and getTrialBudgetSecondsLeft return a number from 0 to 900, also when
\* more than the cap has been charged.
C29_BudgetWithinCap ==
    hist.mono =>
        /\ \A u \in Users : usage[u] # NoUsage => usage[u].secondsToday >= 0
        /\ call.op \in {"beginSession", "getTrialBudgetSecondsLeft"}
              => call.ret \in 0..900

\* 0 was reported after more than the cap had been charged
C29_Witness ==
    /\ hist.mono
    /\ call.op = "getTrialBudgetSecondsLeft" /\ call.ret = 0
    /\ usage["u1"] # NoUsage
    /\ usage["u1"].secondsToday > 900

(***************************************************************************)
(* Realtime fan-out hub (trial.ts 200-230; the same code inline in         *)
(* lovable-ai-workspace-main/server/routes.ts 11-61) and the WebSocket     *)
(* server that drives it (part_003 282-301).                               *)
(***************************************************************************)
Conns == {"c1", "c2", "c3"}
SessionIds == {"A", "B"}
Messages == {"m"}

\* JSON.stringify(message): the text frame that carries the message
JSONstringify(message) == [json |-> message]

\* sessionConnections.has(sessionId)
Has(sc, sessionId) == sessionId \in DOMAIN sc

\* sessionConnections.set(sessionId, set)
MapSet(sc, sessionId, set) ==
    [id \in (DOMAIN sc) \cup {sessionId} |-> IF id = sessionId THEN set ELSE sc[id]]

subscribeExclusive(sc, sessionId, ws) ==
    LET rest == [id \in {i \in DOMAIN sc : i # sessionId /\ sc[i] \ {ws} # {}}
                    |-> sc[id] \ {ws}]
    IN  MapSet(rest, sessionId,
               (IF Has(sc, sessionId) THEN sc[sessionId] ELSE {}) \cup {ws})
subscribe(sc, sessionId, ws) ==
    LET sc1 == IF ~Has(sc, sessionId) THEN MapSet(sc, sessionId, {}) ELSE sc
    IN  [sc1 EXCEPT ![sessionId] = @ \cup {ws}]

\* the loop stops at the first session that held ws
unsubscribeFirstOnly(sc, ws) ==
    IF \E i \in DOMAIN sc : ws \in sc[i]
    THEN LET first == CHOOSE i \in DOMAIN sc : ws \in sc[i]
         IN  [id \in {i \in DOMAIN sc : i # first \/ sc[i] \ {ws} # {}}
                 |-> IF id = first THEN sc[id] \ {ws} ELSE sc[id]]
    ELSE sc
\* for every entry: delete ws from the set, delete the entry when the set is empty
unsubscribeKeepsEmpty(sc, ws) == [id \in DOMAIN sc |-> sc[id] \ {ws}]
unsubscribe(sc, ws) ==
    [id \in {i \in DOMAIN sc : sc[i] \ {ws} # {}} |-> sc[id] \ {ws}]

\* the connections broadcast writes to: the members of the session's set
\* whose readyState is WebSocket.OPEN
broadcastTargetsAll(sc, rs, sessionId) ==
    {ws \in Conns : rs[ws] = "OPEN" /\ \E i \in DOMAIN sc : ws \in sc[i]}
broadcastTargetsAnyState(sc, rs, sessionId) ==
    IF Has(sc, sessionId) THEN sc[sessionId] ELSE {}
broadcastTargets(sc, rs, sessionId) ==
    IF Has(sc, sessionId)
    THEN {ws \in sc[sessionId] : rs[ws] = "OPEN"}
    ELSE {}

\* broadcast: the inboxes after ws.send(msg) on every target
broadcast(sc, rs, inb, sessionId, message) ==
    LET msg == JSONstringify(message)
    IN  [ws \in Conns |->
            IF ws \in broadcastTargets(sc, rs, sessionId)
            THEN Append(inb[ws], msg)
            ELSE inb[ws]]

\* the frames a client sends
Frames ==
    {[type |-> "subscribe", sessionId |-> id] : id \in SessionIds \cup {""}}
    \cup {[type |-> "ping", sessionId |-> ""], [type |-> "garbage", sessionId |-> ""]}

\* frames one connection can be sent
MaxInbox == 2

SessionsOf(sc, ws) == {id \in DOMAIN sc : ws \in sc[id]}

\* ws.on("message"): a well-formed subscribe frame that names a session
\* subscribes the connection; any other frame is ignored
WsMessage(ws, frame) ==
    /\ readyState[ws] \in {"OPEN", "CLOSING"}
    /\ IF frame.type = "subscribe" /\ frame.sessionId # ""
       THEN /\ sessionConnections' = subscribe(sessionConnections, frame.sessionId, ws)
            /\ gone' = gone \ {ws}
       ELSE UNCHANGED <<sessionConnections, gone>>
    /\ hubTick' = 1 - hubTick
    /\ UNCHANGED <<readyState, inbox, ledgerVars, clientVars, apiVars>>

\* the closing handshake starts: readyState leaves OPEN before "close" fires
WsClosing(ws) ==
    /\ readyState[ws] = "OPEN"
    /\ readyState' = [readyState EXCEPT ![ws] = "CLOSING"]
    /\ hubTick' = 1 - hubTick
    /\ UNCHANGED <<sessionConnections, inbox, gone, ledgerVars, clientVars, apiVars>>

\* ws.on("close"): unsubscribe(ws)
WsClose(ws) ==
    /\ readyState[ws] \in {"OPEN", "CLOSING"}
    /\ readyState' = [readyState EXCEPT ![ws] = "CLOSED"]
    /\ sessionConnections' = unsubscribe(sessionConnections, ws)
    /\ gone' = gone \cup {ws}
    /\ hubTick' = 1 - hubTick
    /\ UNCHANGED <<inbox, ledgerVars, clientVars, apiVars>>

\* broadcast(sessionId, message), called by the routes
Broadcast(sessionId, message) ==
    /\ \A ws \in broadcastTargets(sessionConnections, readyState, sessionId) :
          Len(inbox[ws]) < MaxInbox
    /\ inbox' = broadcast(sessionConnections, readyState, inbox, sessionId, message)
    /\ hubTick' = 1 - hubTick
    /\ UNCHANGED <<sessionConnections, readyState, gone, ledgerVars, clientVars, apiVars>>

InitHub ==
    /\ sessionConnections = [id \in {} |-> {}]
    /\ readyState = [ws \in Conns |-> "OPEN"]
    /\ inbox = [ws \in Conns |-> <<>>]
    /\ gone = {}
    /\ hubTick = 0

HubMessage == \E ws \in Conns, frame \in Frames : WsMessage(ws, frame)
HubClosing == \E ws \in Conns : WsClosing(ws)
HubClose == \E ws \in Conns : WsClose(ws)
HubBroadcast == \E id \in SessionIds, message \in Messages : Broadcast(id, message)

NextHub == HubMessage \/ HubClosing \/ HubClose \/ HubBroadcast

(***************************************************************************)
(* Claims about the hub                                                    *)
(***************************************************************************)
\* ws is a member of the set of session id
Subscribed(ws, id) == Has(sessionConnections, id) /\ ws \in sessionConnections[id]

\* C5: broadcast(S, m) delivers m to every open connection subscribed to S and
\* to no connection that is not subscribed to S.
C5_BroadcastReachesExactlySubscribers ==
    [][\A id \in SessionIds, message \in Messages :
        Broadcast(id, message) =>
            \A ws \in Conns :
                /\ (Subscribed(ws, id) /\ readyState[ws] = "OPEN")
                      => inbox'[ws] = Append(inbox[ws], JSONstringify(message))
                /\ ~Subscribed(ws, id) => inbox'[ws] = inbox[ws]
      ]_vars

\* two connections subscribed to "A" only and one to "B" only; a broadcast has
\* reached exactly the two "A" connections
C5_Witness ==
    \E a1, a2, b \in Conns :
        /\ a1 # a2
        /\ SessionsOf(sessionConnections, a1) = {"A"}
        /\ SessionsOf(sessionConnections, a2) = {"A"}
        /\ SessionsOf(sessionConnections, b) = {"B"}
        /\ \A ws \in Conns : readyState[ws] = "OPEN"
        /\ inbox[a1] = <<JSONstringify("m")>>
        /\ inbox[a2] = <<JSONstringify("m")>>
        /\ inbox[b] = <<>>

\* C6: after unsubscribe(c), run when c closes, c is a member of no session's
\* set, and no broadcast reaches c as long as c has not subscribed again.
C6_UnsubscribedIsUnreachable ==
    [][ /\ \A ws \in gone' : SessionsOf(sessionConnections', ws) = {}
        /\ \A ws \in gone \cap gone' : inbox'[ws] = inbox[ws]
      ]_vars

\* a connection received a frame, closed, and a later broadcast reached
\* another connection but not the closed one
C6_Witness ==
    \E ws \in gone, other \in Conns \ gone :
        /\ Len(inbox[ws]) = 1
        /\ Len(inbox[other]) = 2
        /\ SessionsOf(sessionConnections, ws) = {}

\* C7 as claimed: a connection is a member of at most one session's set.
C7_AtMostOneSession ==
    \A ws \in Conns : Cardinality(SessionsOf(sessionConnections, ws)) <= 1

\* C7 as amended: subscribe only adds.  A subscribe frame for S2 from a
\* connection makes it a member of S2's set and leaves its other memberships,
\* so a connection subscribed to S1 is then subscribed to S1 and S2, and a
\* broadcast to S1 still reaches it while it is open.
C7_SubscribeOnlyAdds ==
    [][ /\ \A ws \in Conns, id \in SessionIds :
            WsMessage(ws, [type |-> "subscribe", sessionId |-> id])
            => SessionsOf(sessionConnections', ws)
                  = SessionsOf(sessionConnections, ws) \cup {id}
        /\ \A ws \in Conns, id \in SessionIds, message \in Messages :
            ( /\ Broadcast(id, message)
              /\ Cardinality(SessionsOf(sessionConnections, ws)) > 1
              /\ Subscribed(ws, id) /\ readyState[ws] = "OPEN" )
            => inbox'[ws] = Append(inbox[ws], JSONstringify(message))
      ]_vars

\* a connection subscribed to both sessions has received two broadcasts
C7_Witness ==
    \E ws \in Conns :
        /\ SessionsOf(sessionConnections, ws) = {"A", "B"}
        /\ Len(inbox[ws]) = 2
        /\ \E other \in Conns :
              SessionsOf(sessionConnections, other) = {"B"} /\ Len(inbox[other]) = 1

\* C23: the registry maps no session id to an empty set of connections.
C23_NoEmptySet ==
    \A id \in DOMAIN sessionConnections : sessionConnections[id] # {}

\* a connection that had received a broadcast has closed, and the registry
\* is empty again
C23_Witness ==
    /\ DOMAIN sessionConnections = {}
    /\ \E ws \in gone : Len(inbox[ws]) >= 1

\* C24: broadcast(S, m) sends m to the members of S's set whose transport is
\* open and to nobody else, and leaves the registry as it was: a member in
\* another state stays subscribed, and a session without subscribers gets no
\* set and no frame is sent.
C24_BroadcastSkipsNotOpen ==
    [][\A id \in SessionIds, message \in Messages :
        Broadcast(id, message)
        => /\ sessionConnections' = sessionConnections
           /\ \A ws \in Conns :
                 inbox'[ws] =
                    IF Subscribed(ws, id) /\ readyState[ws] = "OPEN"
                    THEN Append(inbox[ws], JSONstringify(message))
                    ELSE inbox[ws]
           /\ ~Has(sessionConnections, id)
                 => ~Has(sessionConnections', id) /\ inbox' = inbox
      ]_vars

\* a closing member of "A" has received nothing and is still subscribed,
\* while an open member of "A" has received a broadcast
C24_Witness ==
    \E skipped, other \in Conns :
        /\ readyState[skipped] = "CLOSING"
        /\ Subscribed(skipped, "A") /\ inbox[skipped] = <<>>
        /\ readyState[other] = "OPEN"
        /\ SessionsOf(sessionConnections, other) = {"A"}
        /\ Len(inbox[other]) = 1

(***************************************************************************)
(* Realtime client: the useWebsocket hook (use-websocket.ts 31-201), one   *)
(* mounted instance with the default options.                              *)
(*                                                                         *)
(* hook.sockets are the WebSocket objects the hook has created that are    *)
(* not yet CLOSED, in slots 1..MaxSockets; each keeps the closure (gen) of *)
(* the effect run whose connect() created it: that run's sessionId, mode   *)
(* and the retryCount of the render it belongs to.  hook.timers are the    *)
(* pending setTimeout callbacks, each with the closure it will call.       *)
(* wsRef is 0 for null, a slot, or ClosedSocket for an object that has     *)
(* reached CLOSED.  hbRef and retryTimerRef are 0 for null.                *)
(***************************************************************************)
\* options (use-websocket.ts 37-39)
reconnect == TRUE
maxRetries == 10
heartbeatMs == 25000

ClientSessions == {"s1", "s2"}
Modes == {"python", "node"}

MaxSockets == 2
MaxTimers == 2
MaxMessages == 1

ClosedSocket == 0 - 1
NoGen == [sessionId |-> "none", mode |-> "none", retryCount |-> 0]
FreeSocket == [state |-> "FREE", gen |-> NoGen, opened |-> FALSE, viaTimer |-> FALSE]
FreeTimer == [pending |-> FALSE, gen |-> NoGen, delay |-> 0, k |-> 0]
NoMessage == [type |-> "null", session |-> "none"]

\* wsUrl (55-68), without the host: the port and the path
NoUrl == [port |-> "null", path |-> "null"]
wsUrl(sessionId, mode) ==
    IF mode = "python"
    THEN IF sessionId = "none" THEN NoUrl
         ELSE [port |-> "pyPort", path |-> "/ws/" \o sessionId]
    ELSE [port |-> "nodePort", path |-> "/ws"]

FreeSocketSlots(h) == {i \in 1..MaxSockets : h.sockets[i].state = "FREE"}
FreeTimerSlots(h) == {i \in 1..MaxTimers : ~h.timers[i].pending}
LiveSockets(h) == {i \in 1..MaxSockets : h.sockets[i].state # "FREE"}
PendingTimers(h) == {i \in 1..MaxTimers : h.timers[i].pending}
SmallestOf(S) == CHOOSE i \in S : \A j \in S : i <= j

\* ws.close(): CONNECTING and OPEN go to CLOSING, the close event comes later
CloseSocket(h, id) ==
    IF id \in 1..MaxSockets /\ h.sockets[id].state \in {"CONNECTING", "OPEN"}
    THEN [h EXCEPT !.sockets[id].state = "CLOSING"]
    ELSE h

\* disconnect (71-85)
disconnect(h) ==
    LET h1 == [h EXCEPT !.manualCloseRef = TRUE, !.hbRef = 0]
        h2 == IF h1.retryTimerRef # 0
              THEN [h1 EXCEPT !.timers[h1.retryTimerRef] = FreeTimer,
                              !.retryTimerRef = 0]
              ELSE h1
        h3 == CloseSocket(h2, h2.wsRef)
    IN  [h3 EXCEPT !.wsRef = 0, !.connected = FALSE, !.reconnecting = FALSE]

\* connect (104-181) with the closure gen: new WebSocket(wsUrl) either throws,
\* which is caught (178-180), or gives a CONNECTING transport that wsRef takes
connect(h, gen, throws, viaTimer) ==
    IF throws
    THEN [h EXCEPT !.error = "WebSocket init failed"]
    ELSE LET id == SmallestOf(FreeSocketSlots(h))
         IN  [h EXCEPT !.sockets[id] = [state |-> "CONNECTING", gen |-> gen,
                                        opened |-> FALSE, viaTimer |-> viaTimer],
                       !.wsRef = id]

\* ws.onopen (110-131)
onopen(h, id) ==
    [h EXCEPT !.sockets[id].state = "OPEN",
              !.sockets[id].opened = TRUE,
              !.connected = TRUE,
              !.reconnecting = FALSE,
              !.retryCount = 0,
              !.hbRef = IF heartbeatMs # 0 /\ h.hbRef = 0 THEN 1 ELSE h.hbRef]

\* ws.onmessage (133-144): JSON.parse(ev.data), or the raw text as type "text"
ParseFrame(frame) ==
    IF frame.json THEN [type |-> frame.type, session |-> frame.session]
    ELSE [type |-> "text", session |-> frame.session]

onmessage(h, frame) ==
    LET msg == ParseFrame(frame)
    IN  [h EXCEPT !.lastMessage = msg, !.messages = Append(h.messages, msg)]

\* ws.onerror (146-149)
onerror(h) == [h EXCEPT !.error = "WebSocket error"]

\* ws.onclose (151-177): nextRetry and the delay of the reconnect
NextRetry(retryCount) == Min(retryCount + 1, maxRetries)

BackoffDelay(nextRetry) == Min(10000, 500 * 2 ^ (nextRetry - 1))

\* the retryCount that onclose reads: the one of the render its effect ran in
ClosureRetryCount(h, gen) == gen.retryCount

\* the transport in slot id has reached CLOSED: its slot is free again
Closed(h, id) ==
    [h EXCEPT !.sockets[id] = FreeSocket,
              !.wsRef = IF h.wsRef = id THEN ClosedSocket ELSE h.wsRef]

\* k is the number the claims give this close among the consecutive closes
onclose(h, id, k) ==
    LET gen == h.sockets[id].gen
        h1 == [Closed(h, id) EXCEPT !.connected = FALSE, !.hbRef = 0]
        nextRetry == NextRetry(ClosureRetryCount(h, gen))
    IN  IF h.manualCloseRef \/ ~reconnect THEN h1
        ELSE IF nextRetry > maxRetries THEN h1
        ELSE LET t == SmallestOf(FreeTimerSlots(h1))
             IN  [h1 EXCEPT !.retryCount = nextRetry,
                            !.reconnecting = TRUE,
                            !.timers[t] = [pending |-> TRUE, gen |-> gen,
                                           delay |-> BackoffDelay(nextRetry),
                                           k |-> k],
                            !.retryTimerRef = t]

\* the reconnect timer's callback (173-176)
ontimeout(h, t, throws) ==
    LET gen == h.timers[t].gen
        h1 == [h EXCEPT !.timers[t] = FreeTimer, !.retryTimerRef = 0]
    IN  connect(h1, gen, throws, TRUE)

\* the effect (97-188) for the props sessionId and mode: the cleanup of the
\* previous run, then the new run
effect(h, sessionId, mode, throws) ==
    LET h0 == IF h.effectActive THEN disconnect(h) ELSE h
        h1 == [h0 EXCEPT !.sessionId = sessionId, !.mode = mode]
    IN  IF sessionId = "none" \/ wsUrl(sessionId, mode) = NoUrl
        THEN [h1 EXCEPT !.effectActive = FALSE]
        ELSE connect([h1 EXCEPT !.effectActive = TRUE,
                                !.manualCloseRef = FALSE,
                                !.error = "null"],
                     [sessionId |-> sessionId, mode |-> mode,
                      retryCount |-> h.retryCount],
                     throws, FALSE)

(***************************************************************************)
(* The client's steps: a change of the props, the user's calls, the events *)
(* of each transport and the two kinds of timer.  obs keeps, for the       *)
(* claims: fails, the reconnect attempts in a row that closed without      *)
(* having opened; closes, the closes in a row that the user did not ask    *)
(* for, with no open in between; afterDisconnect, what has happened since  *)
(* the user's disconnect(); pinged, the session of the transport that got  *)
(* the last heartbeat ping.                                                *)
(***************************************************************************)
MaxAttempts == 11
MaxClientAttempts == 1
MaxCaptured == 0

ServerFrames(sessionId) ==
    {[json |-> j, type |-> "activity", session |-> sessionId] : j \in BOOLEAN}

InitClient ==
    /\ hook = [sessionId |-> "none", mode |-> "python", effectActive |-> FALSE,
               connected |-> FALSE, reconnecting |-> FALSE, retryCount |-> 0,
               error |-> "null", lastMessage |-> NoMessage, messages |-> <<>>,
               wsRef |-> 0, hbRef |-> 0, retryTimerRef |-> 0,
               manualCloseRef |-> FALSE,
               sockets |-> [i \in 1..MaxSockets |-> FreeSocket],
               timers |-> [i \in 1..MaxTimers |-> FreeTimer]]
    /\ obs = [fails |-> 0, closes |-> 0, afterDisconnect |-> "no",
              pinged |-> "none"]

Rerun(sessionId, mode, throws) ==
    /\ FreeSocketSlots(hook) # {}
    /\ hook.retryCount <= MaxCaptured
    /\ hook' = effect(hook, sessionId, mode, throws)
    /\ obs' = [obs EXCEPT !.fails = 0, !.closes = 0, !.afterDisconnect = "no"]
    /\ UNCHANGED <<ledgerVars, hubVars, apiVars>>

ChangeSession(sessionId, throws) ==
    /\ sessionId # hook.sessionId
    /\ Rerun(sessionId, hook.mode, throws)

ChangeMode(mode, throws) ==
    /\ mode # hook.mode
    /\ Rerun(hook.sessionId, mode, throws)

Disconnect ==
    /\ hook' = disconnect(hook)
    /\ obs' = [obs EXCEPT !.fails = 0, !.closes = 0, !.afterDisconnect = "quiet"]
    /\ UNCHANGED <<ledgerVars, hubVars, apiVars>>

ClearMessages ==
    /\ hook.messages # <<>>
    /\ hook' = [hook EXCEPT !.messages = <<>>]
    /\ UNCHANGED <<obs, ledgerVars, hubVars, apiVars>>

SocketOpen(id) ==
    /\ hook.sockets[id].state = "CONNECTING"
    /\ hook' = onopen(hook, id)
    /\ obs' = [obs EXCEPT !.fails = 0, !.closes = 0]
    /\ UNCHANGED <<ledgerVars, hubVars, apiVars>>

SocketMessage(id, frame) ==
    /\ hook.sockets[id].state = "OPEN"
    /\ frame.session = hook.sockets[id].gen.sessionId
    /\ Len(hook.messages) < MaxMessages
    /\ hook' = onmessage(hook, frame)
    /\ UNCHANGED <<obs, ledgerVars, hubVars, apiVars>>

SocketError(id) ==
    /\ hook.sockets[id].state # "FREE"
    /\ hook' = onerror(hook)
    /\ UNCHANGED <<obs, ledgerVars, hubVars, apiVars>>

SocketClose(id) ==
    /\ hook.sockets[id].state # "FREE"
    /\ FreeTimerSlots(hook) # {}
    /\ LET counted == ~hook.manualCloseRef
           k == IF counted THEN obs.closes + 1 ELSE obs.closes
           failed == hook.sockets[id].viaTimer /\ ~hook.sockets[id].opened
       IN  /\ hook' = onclose(hook, id, k)
           /\ obs' = [obs EXCEPT
                  !.closes = k,
                  !.fails = IF failed THEN obs.fails + 1 ELSE obs.fails,
                  !.afterDisconnect =
                      IF obs.afterDisconnect # "no"
                         /\ PendingTimers(hook') # PendingTimers(hook)
                      THEN "scheduled" ELSE obs.afterDisconnect]
    /\ UNCHANGED <<ledgerVars, hubVars, apiVars>>

TimerFire(t, throws) ==
    /\ hook.timers[t].pending
    /\ FreeSocketSlots(hook) # {}
    /\ hook' = ontimeout(hook, t, throws)
    /\ obs' = [obs EXCEPT !.afterDisconnect =
                   IF obs.afterDisconnect # "no" THEN "attempt" ELSE "no"]
    /\ UNCHANGED <<ledgerVars, hubVars, apiVars>>

\* the heartbeat interval's callback (125-129)
Heartbeat ==
    /\ hook.hbRef # 0
    /\ obs' = IF hook.wsRef \in 1..MaxSockets
                 /\ hook.sockets[hook.wsRef].state = "OPEN"
              THEN [obs EXCEPT !.pinged = hook.sockets[hook.wsRef].gen.sessionId]
              ELSE obs
    /\ UNCHANGED <<hook, ledgerVars, hubVars, apiVars>>

ClientChangeSession ==
    \E id \in ClientSessions \cup {"none"} : ChangeSession(id, FALSE)
ClientChangeMode == \E mode \in Modes : ChangeMode(mode, FALSE)
ClientOpen == \E id \in 1..MaxSockets : SocketOpen(id)
ClientMessage ==
    \E id \in 1..MaxSockets, sessionId \in ClientSessions :
        \E frame \in ServerFrames(sessionId) : SocketMessage(id, frame)
ClientError == \E id \in 1..MaxSockets : SocketError(id)
ClientClose == \E id \in 1..MaxSockets : SocketClose(id)
ClientTimer ==
    \E t \in 1..MaxTimers : obs.fails < MaxClientAttempts /\ TimerFire(t, FALSE)

\* a frame of the session that the transport was opened for
ClientFrame ==
    \E id \in 1..MaxSockets :
        SocketMessage(id, [json |-> TRUE, type |-> "activity",
                           session |-> hook.sockets[id].gen.sessionId])

\* the hook while its props change
NextClient ==
    \/ ClientFrame
    \/ ClientChangeSession
    \/ ClientChangeMode
    \/ Disconnect
    \/ ClientOpen
    \/ ClientClose
    \/ ClientTimer
    \/ Heartbeat

RetryMount == \E throws \in BOOLEAN : ChangeSession("s1", throws)
RetryTimer ==
    \E t \in 1..MaxTimers, throws \in BOOLEAN :
        obs.fails < MaxAttempts /\ TimerFire(t, throws)

\* the hook with one session id: its reconnects, its messages and its errors
NextReconnect ==
    \/ RetryMount
    \/ Disconnect
    \/ ClearMessages
    \/ ClientOpen
    \/ ClientMessage
    \/ ClientError
    \/ ClientClose
    \/ RetryTimer

(***************************************************************************)
(* Claims about the reconnects of the realtime client                      *)
(***************************************************************************)
\* C8: once 10 reconnect attempts in a row have closed without having
\* opened, no reconnect is pending, no further attempt is under way and the
\* reconnecting indicator is false.
C8_RetriesStopAtMax ==
    obs.fails >= maxRetries =>
        /\ PendingTimers(hook) = {}
        /\ LiveSockets(hook) = {}
        /\ ~hook.reconnecting

\* C9: the reconnect scheduled by the k-th close in a row that the user did
\* not ask for (k <= 10) waits min(10000, 500 * 2^(k-1)) ms, and the retry
\* counter is k while that reconnect is pending.
C9_BackoffSchedule ==
    \A t \in PendingTimers(hook) :
        hook.timers[t].k <= maxRetries =>
            /\ hook.timers[t].delay = Min(10000, 500 * 2 ^ (hook.timers[t].k - 1))
            /\ hook.retryTimerRef = t => hook.retryCount = hook.timers[t].k

\* C10: since the user's disconnect(), and until the props change, the
\* reconnect timer that was pending is cancelled, no connection attempt has
\* been made and no reconnect has been scheduled.
C10_DisconnectIsFinal ==
    /\ obs.afterDisconnect \in {"no", "quiet"}
    /\ obs.afterDisconnect = "quiet" => hook.retryTimerRef = 0

\* C11: once the session id or the mode has changed, every transport the
\* hook creates goes to the url of the current props, and every frame it
\* records as lastMessage or appends to messages is one of the current
\* session.
C11_NoOldSessionAfterChange ==
    [][/\ \A i \in 1..MaxSockets :
            (hook.sockets[i].state = "FREE" /\ hook'.sockets[i].state = "CONNECTING")
                => wsUrl(hook'.sockets[i].gen.sessionId, hook'.sockets[i].gen.mode)
                       = wsUrl(hook'.sessionId, hook'.mode)
       /\ (hook'.lastMessage # hook.lastMessage
             \/ Len(hook'.messages) > Len(hook.messages))
                => hook'.lastMessage.session = hook'.sessionId]_vars

\* the transports of the hook that are connecting or open
ActiveSockets(h) ==
    {i \in 1..MaxSockets : h.sockets[i].state \in {"CONNECTING", "OPEN"}}

\* the transport that wsRef refers to is open
CurrentIsOpen(h) ==
    h.wsRef \in 1..MaxSockets /\ h.sockets[h.wsRef].state = "OPEN"

\* C25: the heartbeat timer is active exactly while the current transport
\* has opened and has not closed or been torn down, and a ping goes only to
\* the open transport of the current session.
C25_HeartbeatFollowsTransport ==
    [][/\ (hook'.hbRef # 0) <=> CurrentIsOpen(hook')
       /\ obs'.pinged # obs.pinged => obs'.pinged = hook.sessionId]_vars

\* C26: when creating the transport throws, the error is reported as a
\* string, and with retries enabled and not exhausted a further connection
\* attempt follows: a reconnect is pending or a transport is connecting.
C26_ThrowKeepsReconnecting ==
    [][/\ \A t \in 1..MaxTimers :
             TimerFire(t, TRUE)
                => /\ hook'.error = "WebSocket init failed"
                   /\ (reconnect /\ hook'.retryCount < maxRetries)
                         => PendingTimers(hook') # {} \/ ActiveSockets(hook') # {}
       /\ ChangeSession("s1", TRUE)
             => /\ hook'.error = "WebSocket init failed"
                /\ (reconnect /\ hook'.retryCount < maxRetries)
                      => PendingTimers(hook') # {} \/ ActiveSockets(hook') # {}]_vars

\* C30: at most one transport of the hook is connecting or open, and wsRef
\* refers to it.
C30_OneTransport ==
    /\ Cardinality(ActiveSockets(hook)) <= 1
    /\ \A i \in ActiveSockets(hook) : hook.wsRef = i

(***************************************************************************)
(* The HTTP API over the in-memory storage (part_003 38-247): the routes   *)
(* for sessions and payments of part_003 (332-398, 464-547) and the older  *)
(* ones of lovable-ai-workspace-main/server/routes.ts (96-150, 255-305).   *)
(* A user id is the uid it was created for, a session id and a payment id  *)
(* are the position of the record in the order of creation, a gateway      *)
(* order id is the number of the payment it was created for.  store.day is *)
(* the civil date of the clock; a date 30 days later is day + 30.          *)
(***************************************************************************)
UserIds == {"u1"}
NoUser == [undefined |-> "user"]
NoRow == [undefined |-> "usage row"]
NoSession == [undefined |-> "session"]
NoPayment == [undefined |-> "payment"]

\* MemStorage.getUser (46-48)
getUser(st, id) == IF id \in UserIds THEN st.users[id] ELSE NoUser

\* MemStorage.createUser (58-73)
createUser(st, id) ==
    [st EXCEPT !.users[id] = [subscriptionTier |-> "trial", email |-> id]]

\* MemStorage.updateUser (75-86)
updateUser(st, id, tier) ==
    IF getUser(st, id) = NoUser THEN st
    ELSE [st EXCEPT !.users[id].subscriptionTier = tier]

\* MemStorage.createSession (97-113): status is insertSession.status ?? 'pending'
createSession(st, userId, status) ==
    [st EXCEPT !.sessions = Append(st.sessions,
        [userId |-> userId,
         status |-> IF status = "undefined" THEN "pending" ELSE status])]

\* MemStorage.updateSession (115-122): { ...session, ...updates }; updates
\* without a status ("undefined") leave the status
updateSession(st, id, status) ==
    IF id \in DOMAIN st.sessions /\ status # "undefined"
    THEN [st EXCEPT !.sessions[id].status = status]
    ELSE st

\* MemStorage.getTodayUsage (152-157)
getTodayUsage(st, userId) ==
    IF userId \in UserIds /\ st.day \in DOMAIN st.usage[userId]
    THEN [minutesUsed |-> st.usage[userId][st.day]]
    ELSE NoRow

\* MemStorage.createOrUpdateUsage (159-186)
createOrUpdateUsage(st, userId, minutesUsed) ==
    LET existing == getTodayUsage(st, userId)
        rows == st.usage[userId]
        total == IF existing # NoRow THEN existing.minutesUsed + minutesUsed
                 ELSE minutesUsed
    IN  [st EXCEPT !.usage[userId] =
            [d \in (DOMAIN rows) \cup {st.day} |-> IF d = st.day THEN total ELSE rows[d]]]

\* storage.getUsageByDate(userId, today): the row of the user for that date
getUsageByDate(st, userId, today) ==
    IF userId \in UserIds /\ today \in DOMAIN st.usage[userId]
    THEN [minutesUsed |-> st.usage[userId][today]]
    ELSE NoRow

\* storage.getDistinctUsageDaysLast30(userId): the dates of the user's rows
\* of the last 30 days
getDistinctUsageDaysLast30(st, userId) ==
    IF userId \in UserIds
    THEN {d \in DOMAIN st.usage[userId] : d > st.day - WINDOW_DAYS}
    ELSE {}

\* MemStorage.getPaymentsByUser (189-191), then find by order id (512)
FindPayment(st, userId, orderId) ==
    {i \in DOMAIN st.payments :
        st.payments[i].userId = userId /\ st.payments[i].razorpayOrderId = orderId}

\* MemStorage.createPayment (193-207)
createPayment(st, userId, orderId) ==
    [st EXCEPT !.payments = Append(st.payments,
        [userId |-> userId, razorpayOrderId |-> orderId,
         razorpayPaymentId |-> "null", status |-> "pending",
         subscriptionEndDate |-> NoDay])]

\* MemStorage.updatePayment (209-216)
updatePayment(st, id, paymentId, status, endDate) ==
    [st EXCEPT !.payments[id].razorpayPaymentId = paymentId,
               !.payments[id].status = status,
               !.payments[id].subscriptionEndDate = endDate]

\* the hex HMAC-SHA256 of "orderId|paymentId" under the key secret (65-68),
\* and a text of another length
Signature(orderId, paymentId) == [len |-> 64, order |-> orderId, payment |-> paymentId]
ShortSignature == [len |-> 3, order |-> 0, payment |-> "null"]

\* verifyRazorpayPayment (payment.ts 54-78): without credentials every payment
\* is allowed; timingSafeEqual throws on buffers of different length, and the
\* catch returns false
verifyRazorpayPayment(hasRazorpayCredentials, orderId, paymentId, signature) ==
    IF ~hasRazorpayCredentials THEN TRUE
    ELSE LET expectedSignature == Signature(orderId, paymentId)
         IN  IF signature.len # expectedSignature.len THEN FALSE
             ELSE signature = expectedSignature

\* what a handler answered and caused, the fields a handler does not set
Answer(route, code, kind, message) ==
    [route |-> route, code |-> code,
     body |-> [kind |-> kind, message |-> message, id |-> 0, status |-> "none"],
     engine |-> "none", broadcast |-> 0, log |-> FALSE, email |-> "none"]

\* app.post("/api/auth/verify") (part_003 304-329)
authVerify(st, req) ==
    IF ~req.tokenOk
    THEN [store |-> st, resp |-> Answer("auth", 401, "message", "Invalid token")]
    ELSE [store |-> IF getUser(st, req.uid) = NoUser THEN createUser(st, req.uid) ELSE st,
          resp |-> Answer("auth", 200, "user", req.uid)]

\* the session as res.json(session) sends it
SessionBody(st, id) ==
    [kind |-> "session", message |-> "none", id |-> id, status |-> st.sessions[id].status]

\* the part of both POST /api/sessions handlers after the trial gating
\* (part_003 356-393, routes.ts 110-145); engine is what the start call does:
\* "ok", "status" for an answer that is not ok, "throws"
startSession(st, req, engine, failsOnStatus) ==
    LET st1 == createSession(st, req.userId, req.status)
        id == Len(st1.sessions)
        session == SessionBody(st1, id)
        st2 == IF engine = "ok" THEN updateSession(st1, id, "running")
               ELSE IF engine = "throws" \/ failsOnStatus
                    THEN updateSession(st1, id, "failed")
               ELSE st1
    IN  [store |-> st2,
         resp |-> [Answer("sessions", 200, "session", "none") EXCEPT
                      !.body = session,
                      !.engine = engine,
                      !.log = (engine = "ok"),
                      !.broadcast = IF engine = "ok" THEN id ELSE 0]]

\* app.post("/api/sessions") (part_003 332-398)
postSessions(st, req, engine) ==
    LET today == st.day
        todayUsage == getUsageByDate(st, req.userId, today)
        distinctDays == getDistinctUsageDaysLast30(st, req.userId)
        user == getUser(st, req.userId)
    IN  IF ~req.valid
        THEN [store |-> st,
              resp |-> Answer("sessions", 400, "message", "Failed to create session")]
        ELSE IF user # NoUser /\ user.subscriptionTier = "trial"
                /\ todayUsage # NoRow /\ todayUsage.minutesUsed >= 15
        THEN [store |-> st,
              resp |-> Answer("sessions", 429, "message", "Daily trial limit reached")]
        ELSE IF user # NoUser /\ user.subscriptionTier = "trial"
                /\ Cardinality(distinctDays) >= 5
        THEN [store |-> st,
              resp |-> Answer("sessions", 429, "message", "Trial days exhausted")]
        ELSE startSession(st, req, engine, TRUE)

\* app.post('/api/sessions') (routes.ts 96-150): no test of the days, and no
\* else for an answer that is not ok
postSessionsLovable(st, req, engine) ==
    LET todayUsage == getTodayUsage(st, req.userId)
        user == getUser(st, req.userId)
    IN  IF ~req.valid
        THEN [store |-> st,
              resp |-> Answer("sessions", 400, "message", "Failed to create session")]
        ELSE IF user # NoUser /\ user.subscriptionTier = "trial"
                /\ todayUsage # NoRow /\ todayUsage.minutesUsed >= 15
        THEN [store |-> st,
              resp |-> Answer("sessions", 429, "message", "Daily trial limit exceeded")]
        ELSE startSession(st, req, engine, FALSE)

\* app.post("/api/payments/create-order") (part_003 464-489); the gateway
\* numbers its orders, or createRazorpayOrder throws (payment.ts 12-52)
createOrder(st, req, gatewayOk) ==
    IF ~gatewayOk
    THEN [store |-> st,
          resp |-> Answer("create-order", 500, "message", "Failed to create payment order")]
    ELSE LET st1 == createPayment(st, req.userId, Len(st.payments) + 1)
         IN  [store |-> st1,
              resp |-> [Answer("create-order", 200, "order", "none") EXCEPT
                           !.body.id = Len(st1.payments)]]

\* app.post("/api/payments/verify") (part_003 491-547, routes.ts 255-305)
paymentsVerifyUpdatesFirst(st, req, emailThrows) ==
    LET isValid == verifyRazorpayPayment(st.hasRazorpayCredentials,
                       req.razorpay_order_id, req.razorpay_payment_id,
                       req.razorpay_signature)
        found == FindPayment(st, req.userId, req.razorpay_order_id)
        st1 == IF found = {} THEN st
               ELSE updateUser(
                        updatePayment(st, SmallestOf(found), req.razorpay_payment_id,
                                      "success", st.day + 30),
                        req.userId, "premium")
    IN  IF ~isValid
        THEN [store |-> st1,
              resp |-> Answer("verify", 400, "message", "Invalid payment signature")]
        ELSE [store |-> st1, resp |-> Answer("verify", 200, "success", "none")]
paymentsVerify(st, req, emailThrows) ==
    LET isValid == verifyRazorpayPayment(st.hasRazorpayCredentials,
                       req.razorpay_order_id, req.razorpay_payment_id,
                       req.razorpay_signature)
        found == FindPayment(st, req.userId, req.razorpay_order_id)
    IN  IF ~isValid
        THEN [store |-> st,
              resp |-> Answer("verify", 400, "message", "Invalid payment signature")]
        ELSE IF found = {}
        THEN [store |-> st, resp |-> Answer("verify", 200, "success", "none")]
        ELSE LET st1 == updatePayment(st, SmallestOf(found), req.razorpay_payment_id,
                                      "success", st.day + 30)
                 st2 == updateUser(st1, req.userId, "premium")
                 user == getUser(st2, req.userId)
             IN  [store |-> st2,
                  resp |-> [Answer("verify", 200, "success", "none") EXCEPT
                               !.email = IF user = NoUser THEN "none"
                                         ELSE IF emailThrows THEN "failed"
                                         ELSE "sent"]]

\* app.patch("/api/sessions/:id") (part_003 400-433, routes.ts 152-190): the
\* updates of the body go to the record as they are; a failing call to the
\* engine is caught
patchSessions(st, req, engineThrows) ==
    IF req.id \notin DOMAIN st.sessions
    THEN [store |-> st,
          resp |-> Answer("patch", 404, "message", "Session not found")]
    ELSE LET st1 == updateSession(st, req.id, req.status)
         IN  [store |-> st1,
              resp |-> [Answer("patch", 200, "session", "none") EXCEPT
                           !.body = SessionBody(st1, req.id),
                           !.engine = IF req.status = "undefined" THEN "none"
                                      ELSE IF engineThrows THEN "throws" ELSE "ok",
                           !.broadcast = req.id]]

\* app.post("/api/webhook/viewport-update") (part_003 623-640): the update
\* carries currentUrl only
webhookViewport(st, req) ==
    [store |-> updateSession(st, req.sessionId, "undefined"),
     resp |-> [Answer("viewport-update", 200, "success", "none") EXCEPT
                  !.broadcast = req.sessionId]]

(***************************************************************************)
(* The requests.  store.server is the server that runs: "part_003" or      *)
(* "routes.ts"; resp.tick alternates with every request.                   *)
(***************************************************************************)
MaxApiDay == 5
MaxMinutes == 20
MaxSessions == 2
MaxPayments == 2

RequestUsers == UserIds \cup {"nobody"}
GatewayPayments == {"pay_1"}

Handled(r) ==
    /\ store' = r.store
    /\ resp' = [answer |-> r.resp, tick |-> 1 - resp.tick]
    /\ UNCHANGED <<ledgerVars, hubVars, clientVars>>

InitApi ==
    /\ store \in {[server |-> sv, hasRazorpayCredentials |-> cr, day |-> 1,
                   users |-> [u \in UserIds |-> NoUser],
                   sessions |-> <<>>, payments |-> <<>>,
                   usage |-> [u \in UserIds |-> [d \in {} |-> 0]]] :
                  sv \in {"part_003", "routes.ts"}, cr \in BOOLEAN}
    /\ resp = [answer |-> Answer("none", 0, "none", "none"), tick |-> 0]

AuthVerify(req) == Handled(authVerify(store, req))

PostSessions(req, engine) ==
    /\ Len(store.sessions) < MaxSessions
    /\ Handled(IF store.server = "part_003"
               THEN postSessions(store, req, engine)
               ELSE postSessionsLovable(store, req, engine))

CreateOrder(req, gatewayOk) ==
    /\ Len(store.payments) < MaxPayments
    /\ Handled(createOrder(store, req, gatewayOk))

PaymentsVerify(req, emailThrows) == Handled(paymentsVerify(store, req, emailThrows))

PatchSessions(req, engineThrows) == Handled(patchSessions(store, req, engineThrows))

WebhookViewport(req) == Handled(webhookViewport(store, req))

\* the usage rows are written by createOrUpdateUsage, minutes at a time
RecordUsage(userId, minutesUsed) ==
    /\ getTodayUsage(store, userId) # NoRow
          => getTodayUsage(store, userId).minutesUsed + minutesUsed <= MaxMinutes
    /\ store' = createOrUpdateUsage(store, userId, minutesUsed)
    /\ resp' = [resp EXCEPT !.tick = 1 - resp.tick]
    /\ UNCHANGED <<ledgerVars, hubVars, clientVars>>

\* midnight
NextDay ==
    /\ store.day < MaxApiDay
    /\ store' = [store EXCEPT !.day = store.day + 1]
    /\ resp' = [resp EXCEPT !.tick = 1 - resp.tick]
    /\ UNCHANGED <<ledgerVars, hubVars, clientVars>>

ApiAuth ==
    \E uid \in UserIds, tokenOk \in BOOLEAN :
        AuthVerify([uid |-> uid, tokenOk |-> tokenOk])
ApiSessions ==
    \E valid \in BOOLEAN, userId \in RequestUsers,
       engine \in {"ok", "status", "throws"} :
        PostSessions([valid |-> valid, userId |-> userId, status |-> "undefined"],
                     engine)
ApiUsage == \E userId \in UserIds : RecordUsage(userId, 10)
ApiOrder ==
    \E userId \in RequestUsers, gatewayOk \in BOOLEAN :
        CreateOrder([userId |-> userId], gatewayOk)
ApiVerify ==
    \E orderId \in 1..MaxPayments, paymentId \in GatewayPayments,
       signed \in 0..MaxPayments, userId \in RequestUsers, emailThrows \in BOOLEAN :
        PaymentsVerify([razorpay_order_id |-> orderId,
                        razorpay_payment_id |-> paymentId,
                        razorpay_signature |->
                            IF signed = 0 THEN ShortSignature
                            ELSE Signature(signed, paymentId),
                        userId |-> userId],
                       emailThrows)

SessionStatuses == {"pending", "running", "paused", "completed", "failed"}
ApiPatch ==
    \E id \in 1..MaxSessions, status \in SessionStatuses \cup {"undefined"},
       engineThrows \in BOOLEAN :
        PatchSessions([id |-> id, status |-> status], engineThrows)
ApiViewport ==
    \E id \in 1..MaxSessions : WebhookViewport([sessionId |-> id])

\* the trial gating of the sessions, the payments, and the life of a session
NextSessions == ApiAuth \/ ApiUsage \/ NextDay \/ ApiSessions
NextPayments == ApiAuth \/ ApiOrder \/ ApiVerify \/ NextDay
NextLifecycle == ApiSessions \/ ApiPatch \/ ApiViewport

(***************************************************************************)
(* Claims about the HTTP API                                               *)
(***************************************************************************)
\* the request of a session
SessionRequests ==
    [valid : BOOLEAN, userId : RequestUsers, status : {"undefined"}]

\* the trial of a user is exhausted: 15 minutes or more recorded today, or
\* 5 distinct usage days in the last 30 days
TrialExhausted(st, userId) ==
    /\ userId \in UserIds
    /\ st.users[userId] # NoUser
    /\ st.users[userId].subscriptionTier = "trial"
    /\ \/ /\ st.day \in DOMAIN st.usage[userId]
          /\ st.usage[userId][st.day] >= 15
       \/ Cardinality({d \in DOMAIN st.usage[userId] :
                          st.day - d >= 0 /\ st.day - d < 30}) >= 5

\* C12: POST /api/sessions: whenever the call to the engine's start endpoint
\* throws or answers with a non-success status, the session just created has
\* status "failed" in the registry and the caller receives a JSON response
\* carrying the session (status 200).
C12_EngineFailureMarksFailed ==
    [][\A req \in SessionRequests, engine \in {"status", "throws"} :
          (PostSessions(req, engine) /\ Len(store'.sessions) > Len(store.sessions))
             => /\ store'.sessions[Len(store'.sessions)].status = "failed"
                /\ resp'.answer.code = 200
                /\ resp'.answer.body.kind = "session"
                /\ resp'.answer.body.id = Len(store'.sessions)]_vars

\* C13: POST /api/sessions for a trial user whose trial is exhausted answers
\* 429, creates no session record, calls no engine and broadcasts nothing;
\* and no step other than a request about the session ends a running session.
C13_ExhaustedTrialRejected ==
    [][/\ \A req \in SessionRequests, engine \in {"ok", "status", "throws"} :
             (PostSessions(req, engine) /\ req.valid
                 /\ TrialExhausted(store, req.userId))
                => /\ resp'.answer.code = 429
                   /\ store'.sessions = store.sessions
                   /\ resp'.answer.engine = "none"
                   /\ resp'.answer.broadcast = 0
       /\ \A i \in DOMAIN store.sessions :
             store.sessions[i].status = "running"
                => store'.sessions[i].status = "running"]_vars

\* the requests of a verification
VerifyRequests ==
    [razorpay_order_id : 1..MaxPayments,
     razorpay_payment_id : GatewayPayments,
     razorpay_signature : {ShortSignature}
         \cup {Signature(o, p) : o \in 1..MaxPayments, p \in GatewayPayments},
     userId : RequestUsers]

\* C14: POST /api/payments/verify with a signature that does not verify
\* answers 400 and changes nothing: the payment records, the users and their
\* tiers are as before and no email is sent.
C14_BadSignatureChangesNothing ==
    [][\A req \in VerifyRequests, emailThrows \in BOOLEAN :
          (PaymentsVerify(req, emailThrows)
              /\ ~verifyRazorpayPayment(store.hasRazorpayCredentials,
                     req.razorpay_order_id, req.razorpay_payment_id,
                     req.razorpay_signature))
             => /\ resp'.answer.code = 400
                /\ store'.payments = store.payments
                /\ store'.users = store.users
                /\ resp'.answer.email = "none"]_vars

\* a verification was rejected while a pending payment of a registered user
\* was on record
C14_Witness ==
    /\ resp.answer.route = "verify"
    /\ resp.answer.code = 400
    /\ \E i \in DOMAIN store.payments :
          /\ store.payments[i].status = "pending"
          /\ store.payments[i].userId \in UserIds
          /\ store.users[store.payments[i].userId] # NoUser

\* C27: a payment record is created "pending", and once a verification has
\* set it to "success" no later request changes any of its fields.
C27_PaymentUpdatedOnce ==
    [][/\ \A i \in DOMAIN store'.payments :
             i \notin DOMAIN store.payments => store'.payments[i].status = "pending"
       /\ \A i \in DOMAIN store.payments :
             store.payments[i].status = "success"
                => store'.payments[i] = store.payments[i]]_vars

\* C28: a session record whose status is "completed" or "failed" keeps that
\* status, and no session record is ever removed.
C28_TerminalStatusStays ==
    [][\A i \in DOMAIN store.sessions :
          /\ i \in DOMAIN store'.sessions
          /\ store.sessions[i].status \in {"completed", "failed"}
                => store'.sessions[i].status = store.sessions[i].status]_vars

(***************************************************************************)
(* Specifications                                                          *)
(***************************************************************************)
\* the ledger, the hub and the client do not depend on the server that runs
InitServers == InitLedger /\ InitHub /\ InitClient /\ InitApi
Init ==
    /\ InitServers
    /\ store.server = "part_003"
    /\ store.hasRazorpayCredentials

\* the ledger on one civil day, the ledger over the 30-day window, the hub
SpecLedger == Init /\ [][NextLedger]_vars
SpecWindow == Init /\ [][NextWindow]_vars
SpecHub == Init /\ [][NextHub]_vars

\* the realtime client: under changing props, and on one session
SpecClient == Init /\ [][NextClient]_vars
SpecReconnect == Init /\ [][NextReconnect]_vars

\* the HTTP API: the sessions of a trial user, and the payments
SpecSessions == InitServers /\ [][NextSessions]_vars
SpecPayments == InitServers /\ [][NextPayments]_vars
SpecLifecycle == InitServers /\ [][NextLifecycle]_vars

====
